---------------------------- MODULE Spec2Model ----------------------------
(***************************************************************************)
(* Model of src/main.py: the MACD+Stochastic composite indicator           *)
(* (add_composites), the crossover detector (detect_cross), the weekly     *)
(* resampler (resample_weekly), the ranked-symbol fetch with its retry     *)
(* loop (fetch_top10_foreign), the per-symbol analysis (analyze_symbol)    *)
(* and the batch loop (main).                                              *)
(*                                                                         *)
(* Numbers.  The program computes on IEEE doubles.  Here every indicator   *)
(* value v is the integer floor(v * SCALE) (fixed point, resolution        *)
(* 1/SCALE); prices are integers (won).  Divisions round toward minus      *)
(* infinity.  A NaN produced by a division by a zero range is the explicit *)
(* value NaN, which fillna(50) replaces, as in the code.                   *)
(***************************************************************************)
EXTENDS Integers, Sequences, FiniteSets, TLC

VARIABLES
    dfInd,      \* detector run: the indicator rows (CompK, Diff) seen so far
    events,     \* detector run: events[t] = detect_cross(rows 1..t)
    bars,       \* indicator run: the raw price bars (High, Low, Close)
    ind,        \* indicator run: add_composites(bars), with its intermediate columns
    sig,        \* indicator run: detect_cross(ind)
    pc,         \* main: position in main()
    token,      \* main: the module's _access_token (FALSE: not set)
    payload,    \* main: the "output" list of the last 200 response
    gets,       \* main: status codes of the GET requests issued by fetch_top10_foreign
    top10,      \* main: the table fetch_top10_foreign returned (a sequence of rows)
    idx,        \* main: number of rows of top10 the loop has finished
    attempted,  \* main: codes for which analyze_symbol was called, in call order
    results,    \* main: per attempted symbol, what analyze_symbol did
    alerts,     \* main: the alerts list
    sent,       \* main: Telegram messages delivered, in order
    logs        \* main: log records (level, code)

varsD == <<dfInd, events>>
varsI == <<bars, ind, sig>>
varsM == <<pc, token, payload, gets, top10, idx, attempted, results, alerts, sent, logs>>
vars  == <<dfInd, events, bars, ind, sig,
           pc, token, payload, gets, top10, idx, attempted, results, alerts, sent, logs>>

---------------------------------------------------------------------------
(* Program constants (src/main.py lines 40-48).                            *)
FAST_PERIOD == 12
SLOW_PERIOD == 26
K_WINDOW    == 14
K_SMOOTH    == 3
D_SMOOTH    == 3
OB_LINE     == 80
OS_LINE     == 20

(* Fixed-point resolution of the model: 1/SCALE.                           *)
SCALE == 100

(* Python's None, as returned by detect_cross and analyze_symbol.          *)
None == "None"

Signals == {"BUY", "BUY_W", "SELL", "SELL_W"}
BuyFamily  == {"BUY", "BUY_W"}
SellFamily == {"SELL", "SELL_W"}

---------------------------------------------------------------------------
(* detect_cross, src/main.py lines 163-173.                                *)

\* mutant: the golden cross with a strict lower boundary (prev_diff < 0)
golden_cross_strict(prev_diff, curr_diff) == prev_diff < 0 /\ 0 < curr_diff

\* mutant: the golden cross with both boundaries inclusive
golden_cross_flat(prev_diff, curr_diff) == prev_diff <= 0 /\ 0 <= curr_diff

\* line 169: prev_diff <= 0 < curr_diff
golden_cross(prev_diff, curr_diff) == prev_diff <= 0 /\ 0 < curr_diff

\* line 171: prev_diff >= 0 > curr_diff
dead_cross(prev_diff, curr_diff) == prev_diff >= 0 /\ 0 > curr_diff

\* mutant: the strength test reads the current row's CompK
strength_row_current(df) == Len(df)

\* line 168: prev_k = df['CompK'].iloc[-2]
strength_row(df) == Len(df) - 1

\* mutant: a previous K equal to the oversold line counts as oversold
is_oversold_inclusive(prev_k) == prev_k <= OS_LINE * SCALE

\* line 170: prev_k < OS_LINE
is_oversold(prev_k) == prev_k < OS_LINE * SCALE

\* line 172: prev_k > OB_LINE
is_overbought(prev_k) == prev_k > OB_LINE * SCALE

detect_cross(df) ==
    IF Len(df) < 2 THEN None
    ELSE LET prev_diff == df[Len(df) - 1].Diff
             curr_diff == df[Len(df)].Diff
             prev_k    == df[strength_row(df)].CompK
         IN  IF golden_cross(prev_diff, curr_diff)
             THEN (IF is_oversold(prev_k) THEN "BUY" ELSE "BUY_W")
             ELSE IF dead_cross(prev_diff, curr_diff)
             THEN (IF is_overbought(prev_k) THEN "SELL" ELSE "SELL_W")
             ELSE None

---------------------------------------------------------------------------
(* add_composites, src/main.py lines 128-160.  A column is a sequence of   *)
(* fixed-point values; a column that may hold NaN holds NaN or <<v>>.      *)

NaN == <<>>

Min2(a, b) == IF a <= b THEN a ELSE b
Max2(a, b) == IF a >= b THEN a ELSE b

RECURSIVE SeqMin(_)
SeqMin(xs) == IF Len(xs) = 1 THEN xs[1] ELSE Min2(xs[1], SeqMin(Tail(xs)))

RECURSIVE SeqMax(_)
SeqMax(xs) == IF Len(xs) = 1 THEN xs[1] ELSE Max2(xs[1], SeqMax(Tail(xs)))

RECURSIVE SeqSum(_)
SeqSum(xs) == IF Len(xs) = 0 THEN 0 ELSE xs[1] + SeqSum(Tail(xs))

\* a column given row by row, as a sequence of n values
Series(n, f) == SubSeq(f, 1, n)

\* the rows of a rolling window of the given size ending at row i
\* (min_periods=1: the window is shorter at the start of the series)
Window(xs, size, i) == SubSeq(xs, Max2(1, i - size + 1), i)

\* Series.rolling(window, min_periods=1).min() / .max() / .mean()
rolling_min(xs, size) ==
    Series(Len(xs), [i \in 1..Len(xs) |-> SeqMin(Window(xs, size, i))])
rolling_max(xs, size) ==
    Series(Len(xs), [i \in 1..Len(xs) |-> SeqMax(Window(xs, size, i))])
\* mutant: the mean divides by the window size even when fewer rows exist
rolling_mean_full(xs, size) ==
    Series(Len(xs), [i \in 1..Len(xs) |-> SeqSum(Window(xs, size, i)) \div size])

rolling_mean(xs, size) ==
    Series(Len(xs), [i \in 1..Len(xs) |->
        SeqSum(Window(xs, size, i)) \div Len(Window(xs, size, i))])

\* Series.ewm(span=span, adjust=False).mean():
\* y[1] = x[1], y[t] = (1 - a) * y[t-1] + a * x[t] with a = 2 / (span + 1)
RECURSIVE ewm_mean(_, _)
ewm_mean(xs, span) ==
    IF Len(xs) <= 1 THEN xs
    ELSE LET prev == ewm_mean(SubSeq(xs, 1, Len(xs) - 1), span)
         IN  Append(prev, ((span - 1) * prev[Len(prev)] + 2 * xs[Len(xs)])
                            \div (span + 1))

\* .replace(0, np.nan) on one value
replace_zero(d) == IF d = 0 THEN NaN ELSE <<d>>

\* num / denom * 100 on one value; NaN when the denominator is NaN
ratio100(num, denom) ==
    IF denom = NaN THEN NaN ELSE <<(num * 100 * SCALE) \div denom[1]>>

\* mutant: the degenerate case is filled with 0 instead of the given value
fillna_zero(x, v) == IF x = NaN THEN 0 ELSE x[1]

\* .fillna(v) on one value
fillna(x, v) == IF x = NaN THEN v ELSE x[1]

\* mutant: no clipping
clip_none(x, lo, hi) == x

\* .clip(lo, hi) on one value
clip(x, lo, hi) == IF x < lo THEN lo ELSE IF x > hi THEN hi ELSE x

add_composites(df, fast, slow, k_window, k_smooth, d_smooth) ==
    LET n     == Len(df)
        close == Series(n, [i \in 1..n |-> df[i].Close * SCALE])
        high  == Series(n, [i \in 1..n |-> df[i].High * SCALE])
        low   == Series(n, [i \in 1..n |-> df[i].Low * SCALE])
        ema_fast == ewm_mean(close, fast)
        ema_slow == ewm_mean(close, slow)
        macd_raw == Series(n, [i \in 1..n |-> ema_fast[i] - ema_slow[i]])
        macd_min == rolling_min(macd_raw, k_window)
        macd_max == rolling_max(macd_raw, k_window)
        denom    == Series(n, [i \in 1..n |-> replace_zero(macd_max[i] - macd_min[i])])
        macd_n0  == Series(n, [i \in 1..n |->
                       fillna(ratio100(macd_raw[i] - macd_min[i], denom[i]),
                              50 * SCALE)])
        macd_norm == IF k_smooth > 1 THEN ewm_mean(macd_n0, k_smooth)
                     ELSE macd_n0
        ll == rolling_min(low, k_window)
        hh == rolling_max(high, k_window)
        stoch_denom == Series(n, [i \in 1..n |-> replace_zero(hh[i] - ll[i])])
        k_raw  == Series(n, [i \in 1..n |->
                     fillna(ratio100(close[i] - ll[i], stoch_denom[i]),
                            50 * SCALE)])
        slow_k == IF k_smooth > 1 THEN ewm_mean(k_raw, k_smooth) ELSE k_raw
        comp_k == Series(n, [i \in 1..n |->
                     clip((macd_norm[i] + slow_k[i]) \div 2, 0, 100 * SCALE)])
        comp_m == rolling_mean(comp_k, d_smooth)
        comp_d == Series(n, [i \in 1..n |-> clip(comp_m[i], 0, 100 * SCALE)])
    IN  Series(n, [i \in 1..n |->
           [High |-> df[i].High, Low |-> df[i].Low, Close |-> df[i].Close,
            CompK |-> comp_k[i], CompD |-> comp_d[i],
            Diff  |-> comp_k[i] - comp_d[i],
            \* locals of the function, kept for the properties below
            hh |-> hh[i], ll |-> ll[i],
            macd_min |-> macd_min[i], macd_max |-> macd_max[i],
            macd_n0 |-> macd_n0[i], k_raw |-> k_raw[i]]])

\* a call with the default parameters, as at lines 317 and 323
add_composites_default(df) ==
    add_composites(df, FAST_PERIOD, SLOW_PERIOD, K_WINDOW, K_SMOOTH, D_SMOOTH)

---------------------------------------------------------------------------
(* resample_weekly, src/main.py lines 176-188.  A date is a day number;    *)
(* day 0 is a Saturday, so the week ending on Friday 7w+6 holds the days   *)
(* 7w .. 7w+6.                                                             *)

WeekOf(day) == day \div 7

RECURSIVE sort_by_date(_)
\* df.sort_values('Date') (line 309); the dates of a history are distinct
sort_by_date(rows) ==
    IF Len(rows) <= 1 THEN rows
    ELSE LET m == CHOOSE i \in 1..Len(rows) :
                    \A j \in 1..Len(rows) : rows[i].Date <= rows[j].Date
             rest == [k \in 1..(Len(rows) - 1) |->
                        IF k < m THEN rows[k] ELSE rows[k + 1]]
         IN  <<rows[m]>> \o sort_by_date(rest)

\* the rows of one bin, in order
Bin(rows, w) == SelectSeq(rows, LAMBDA r : WeekOf(r.Date) = w)

RECURSIVE weekly_bins(_, _, _)
\* one weekly bar per bin from week w to week last; a bin without rows has
\* no Close and is dropped (dropna(subset=['Close']))
weekly_bins(rows, w, last) ==
    IF w > last THEN <<>>
    ELSE LET b == Bin(rows, w)
             bar == [Date   |-> 7 * w + 6,
                     Open   |-> b[1].Open,
                     High   |-> SeqMax([i \in 1..Len(b) |-> b[i].High]),
                     Low    |-> SeqMin([i \in 1..Len(b) |-> b[i].Low]),
                     Close  |-> b[Len(b)].Close,
                     Volume |-> SeqSum([i \in 1..Len(b) |-> b[i].Volume])]
         IN  (IF Len(b) = 0 THEN <<>> ELSE <<bar>>)
             \o weekly_bins(rows, w + 1, last)

resample_weekly(rows) ==
    IF Len(rows) = 0 THEN <<>>
    ELSE weekly_bins(rows, WeekOf(rows[1].Date), WeekOf(rows[Len(rows)].Date))

\* the columns resample_weekly aggregates (lines 181-187)
WeeklyCols == {"Open", "High", "Low", "Close", "Volume"}

\* the columns add_composites reads (lines 132-134)
IndicatorCols == {"Close", "High", "Low"}

---------------------------------------------------------------------------
(* analyze_symbol, src/main.py lines 295-368.  data is what the price      *)
(* provider does for the symbol: it raises, or returns a table with some   *)
(* columns and rows; photo_ok tells whether Telegram accepts the photo.    *)
(* The result records the value of sig_daily and sig_weekly ("not_run":    *)
(* the line was not reached, "raise": it raised) and what the call did:    *)
(* "raise", "none" (return without a value) or "signals" (the pair).       *)

Result(outcome, daily, weekly, close) ==
    [outcome |-> outcome, daily |-> daily, weekly |-> weekly,
     sd |-> IF outcome = "signals" THEN daily ELSE None,
     sw |-> IF outcome = "signals" THEN weekly ELSE None,
     today_close |-> close]

analyze_symbol(data, photo_ok) ==
    IF data.fetch = "raise" THEN Result("raise", "not_run", "not_run", 0)
    ELSE IF data.rows = <<>> \/ data.cols = {}
    THEN Result("none", "not_run", "not_run", 0)
    ELSE
    LET df_raw == sort_by_date(data.rows)
        today_close == df_raw[Len(df_raw)].Close
    IN  IF "Close" \notin data.cols
        THEN Result("raise", "not_run", "not_run", 0)
        ELSE IF ~(IndicatorCols \subseteq data.cols)
        THEN Result("raise", "raise", "not_run", today_close)
        ELSE
        LET sig_daily == detect_cross(add_composites_default(df_raw))
        IN  IF ~(WeeklyCols \subseteq data.cols)
            THEN Result("raise", sig_daily, "raise", today_close)
            ELSE
            LET df_weekly  == add_composites_default(resample_weekly(df_raw))
                sig_weekly == detect_cross(df_weekly)
            IN  IF ~photo_ok
                THEN Result("raise", sig_daily, sig_weekly, today_close)
                ELSE Result("signals", sig_daily, sig_weekly, today_close)

---------------------------------------------------------------------------
(* fetch_top10_foreign (lines 89-125) and main (lines 375-416).            *)

\* line 99: for attempt in range(1, 4)
FETCH_ATTEMPTS == 3

\* line 125: .head(10)
TOP_N == 10

\* mutant: the loop does not stop on a 200 response
is_success_never(status) == FALSE

\* line 101: resp.status_code == 200
is_success(status) == status = 200

\* mutant: a failed symbol ends the run
after_symbol_failure_fatal == "crashed"

\* lines 405-406: the exception is logged and the loop goes on
after_symbol_failure == "loop"

\* the possible results of sort_values(..., ascending=False).head(10):
\* the rows in descending order of the value (ties in any order)
SortedTop(rows) ==
    { s \in [1..Len(rows) -> { rows[i] : i \in 1..Len(rows) }] :
        /\ \A r \in { rows[i] : i \in 1..Len(rows) } :
             Cardinality({ i \in 1..Len(rows) : s[i] = r })
               = Cardinality({ i \in 1..Len(rows) : rows[i] = r })
        /\ \A i \in 1..(Len(rows) - 1) : s[i].tv >= s[i + 1].tv }

head(s, n) == SubSeq(s, 1, Min2(n, Len(s)))

Log(level, what) == [level |-> level, what |-> what]

\* auth(), lines 59-72, called at line 383
Auth(env_ok, status, has_token) ==
    /\ pc = "auth"
    /\ IF env_ok /\ status = 200 /\ has_token
       THEN /\ token' = TRUE
            /\ pc' = "fetch"
            /\ logs' = logs
       ELSE /\ token' = token
            /\ pc' = "crashed"
            /\ logs' = IF env_ok /\ status # 200
                       THEN Append(logs, Log("error", "auth")) ELSE logs
    /\ UNCHANGED <<payload, gets, top10, idx, attempted, results, alerts, sent>>
    /\ UNCHANGED <<varsD, varsI>>

\* one pass of the retry loop of fetch_top10_foreign (lines 99-107) and,
\* when the loop ends, the rest of the function and main's test of the
\* table (lines 109-125, 386-392)
Get(status, output) ==
    /\ pc = "fetch" /\ token
    /\ Len(gets) < FETCH_ATTEMPTS
    /\ gets' = Append(gets, status)
    /\ IF is_success(status)
       THEN /\ payload' = output
            /\ IF output = <<>>
               THEN /\ top10' = <<>>
                    /\ logs' = logs \o <<Log("warning", "no result"),
                                         Log("error", "top10")>>
                    /\ pc' = "done"
               ELSE /\ \E s \in SortedTop(output) : top10' = head(s, TOP_N)
                    /\ logs' = logs
                    /\ pc' = "loop"
       ELSE /\ payload' = payload
            /\ top10' = <<>>
            /\ IF Len(gets) + 1 = FETCH_ATTEMPTS
               THEN /\ logs' = logs \o <<Log("warning", "get"),
                                         Log("error", "all attempts"),
                                         Log("error", "top10")>>
                    /\ pc' = "done"
               ELSE /\ logs' = Append(logs, Log("warning", "get"))
                    /\ pc' = "fetch"
    /\ UNCHANGED <<token, idx, attempted, results, alerts, sent>>
    /\ UNCHANGED <<varsD, varsI>>

\* requests.get raises (timeout, connection error): nothing catches it
GetRaises ==
    /\ pc = "fetch" /\ token
    /\ Len(gets) < FETCH_ATTEMPTS
    /\ pc' = "crashed"
    /\ UNCHANGED <<token, payload, gets, top10, idx, attempted, results,
                   alerts, sent, logs>>
    /\ UNCHANGED <<varsD, varsI>>

Dash(x) == IF x = None THEN "-" ELSE x

\* one iteration of the loop of main, lines 395-406
AnalyzeRow(data, photo_ok) ==
    /\ pc = "loop"
    /\ idx < Len(top10)
    /\ LET row    == top10[idx + 1]
           result == analyze_symbol(data, photo_ok)
       IN  /\ attempted' = Append(attempted, row.code)
           /\ results' = Append(results, result)
           /\ idx' = idx + 1
           /\ sent' = IF result.outcome = "signals"
                      THEN Append(sent, [kind |-> "photo", code |-> row.code,
                                         tv |-> row.tv,
                                         close |-> result.today_close,
                                         sd |-> result.sd, sw |-> result.sw])
                      ELSE sent
           /\ alerts' = IF result.outcome = "signals"
                           /\ (result.sd # None \/ result.sw # None)
                        THEN Append(alerts, [code |-> row.code,
                                             sd |-> Dash(result.sd),
                                             sw |-> Dash(result.sw)])
                        ELSE alerts
           /\ logs' = CASE result.outcome = "raise" ->
                             Append(logs, Log("exception", row.code))
                        [] result.outcome = "none" ->
                             Append(logs, Log("warning", row.code))
                        [] OTHER -> logs
           /\ pc' = IF result.outcome = "raise"
                    THEN after_symbol_failure ELSE "loop"
    /\ UNCHANGED <<token, payload, gets, top10>>
    /\ UNCHANGED <<varsD, varsI>>

\* after the loop, lines 408-416
Summary(msg_ok) ==
    /\ pc = "loop"
    /\ idx = Len(top10)
    /\ IF msg_ok
       THEN /\ sent' = Append(sent, [kind |-> "summary", alerts |-> alerts])
            /\ logs' = Append(logs, Log("info", "done"))
            /\ pc' = "done"
       ELSE /\ sent' = sent
            /\ logs' = logs
            /\ pc' = "crashed"
    /\ UNCHANGED <<token, payload, gets, top10, idx, attempted, results, alerts>>
    /\ UNCHANGED <<varsD, varsI>>

---------------------------------------------------------------------------
(* The detector applied at every index of an indicator series: row by row  *)
(* the series grows and detect_cross is evaluated on the prefix.           *)

MaxRows == 5

Row(d, k) == [Diff |-> d, CompK |-> k]

\* diff = [-1, -0.5, 0, 0.3, 0.2], CompositeK = [10, 12, 15, 18, 17]
ScenarioB == << Row(-SCALE, 10 * SCALE), Row(-(SCALE \div 2), 12 * SCALE),
                Row(0, 15 * SCALE), Row((3 * SCALE) \div 10, 18 * SCALE),
                Row((2 * SCALE) \div 10, 17 * SCALE) >>

RowInputs == { ScenarioB[i] : i \in 1..5 }
             \cup { Row(0, OS_LINE * SCALE), Row(0, OB_LINE * SCALE),
                    Row(0, 90 * SCALE), Row((3 * SCALE) \div 10, 90 * SCALE) }

InitMainIdle ==
    /\ pc = "idle" /\ token = FALSE /\ payload = <<>> /\ gets = <<>> /\ top10 = <<>> /\ idx = 0
    /\ attempted = <<>> /\ results = <<>> /\ alerts = <<>>
    /\ sent = <<>> /\ logs = <<>>

InitIndIdle == bars = <<>> /\ ind = <<>> /\ sig = None

InitDetIdle == dfInd = <<>> /\ events = <<>>

InitDetect == InitDetIdle /\ InitIndIdle /\ InitMainIdle

AppendRow(r) ==
    /\ Len(dfInd) < MaxRows
    /\ dfInd' = Append(dfInd, r)
    /\ events' = Append(events, detect_cross(Append(dfInd, r)))
    /\ UNCHANGED <<varsI, varsM>>

NextDetect == \E r \in RowInputs : AppendRow(r)

SpecDetect == InitDetect /\ [][NextDetect]_vars

---------------------------------------------------------------------------
(* The indicator engine applied to a price history: day by day the history *)
(* grows by one bar and the indicators and the latest-event detector are   *)
(* evaluated on the whole history, as one run of analyze_symbol does.      *)

MaxBars == 5

\* the longest history, days without price movement included
MaxHistory == 16

Bar(h, l, c) == [High |-> h, Low |-> l, Close |-> c]

\* Two well-formed bars and a bar whose close lies outside [low, high]
\* (the provider's data is not validated anywhere in the program).
BarInputs == { Bar(110, 100, 110), Bar(120, 100, 100), Bar(110, 100, 130) }

InitInd == InitDetIdle /\ InitIndIdle /\ InitMainIdle

Compute(df) ==
    /\ bars' = df
    /\ ind'  = add_composites_default(df)
    /\ sig'  = detect_cross(ind')
    /\ UNCHANGED <<varsD, varsM>>

\* a trading day with price movement
AppendBar(b) ==
    /\ Len(bars) < MaxBars
    /\ Compute(Append(bars, b))

\* a day without price movement: high = low = close = the previous close
HaltDay ==
    /\ Len(bars) >= 1
    /\ Len(bars) < MaxHistory
    /\ LET c == bars[Len(bars)].Close
       IN  Compute(Append(bars, Bar(c, c, c)))

NextInd == (\E b \in BarInputs : AppendBar(b)) \/ HaltDay

SpecInd == InitInd /\ [][NextInd]_vars

---------------------------------------------------------------------------
(* One run of main.  The ranked-symbol API answers each GET with a status  *)
(* and, on 200, an output list; the price provider answers each symbol     *)
(* with one of a few price histories, an empty table or an exception.      *)

MaxSymbols == 2

\* the rows the API can list: a code and its net-buy value
PayloadRows == { [code |-> "005930", tv |-> 1], [code |-> "000660", tv |-> 2] }

RECURSIVE SeqsUpTo(_, _)
SeqsUpTo(S, n) ==
    IF n = 0 THEN { <<>> }
    ELSE LET shorter == SeqsUpTo(S, n - 1)
         IN  shorter \cup { Append(q, x) : q \in shorter, x \in S }

Payloads == SeqsUpTo(PayloadRows, MaxSymbols)

StatusInputs == {200, 500}

Day(d, o, h, l, c, v) ==
    [Date |-> d, Open |-> o, High |-> h, Low |-> l, Close |-> c, Volume |-> v]

AllCols == {"Open", "High", "Low", "Close", "Volume"}

Table(cols, rows) == [fetch |-> "ok", cols |-> cols, rows |-> rows]

\* Monday of week 0 is day 2; Monday of week 1 is day 9.
Rebound == << Day(2, 100, 110, 100, 110, 5), Day(3, 110, 110, 100, 100, 5),
              Day(9, 100, 110, 90, 90, 5), Day(10, 90, 120, 90, 120, 5) >>
Falling == << Day(2, 100, 110, 100, 110, 5), Day(3, 110, 110, 100, 100, 5),
              Day(9, 100, 110, 90, 90, 5), Day(10, 90, 110, 90, 90, 5) >>
Quiet   == << Day(3, 100, 110, 100, 100, 5), Day(2, 100, 110, 100, 100, 5) >>

DataInputs ==
    { [fetch |-> "raise", cols |-> {}, rows |-> <<>>],
      Table(AllCols, <<>>),
      Table(AllCols, Rebound), Table(AllCols, Quiet),
      Table(AllCols \ {"Volume"}, Rebound),
      Table(AllCols \ {"High"}, Falling) }

InitMain ==
    /\ InitDetIdle /\ InitIndIdle
    /\ pc = "auth" /\ token = FALSE /\ payload = <<>> /\ gets = <<>>
    /\ top10 = <<>> /\ idx = 0
    /\ attempted = <<>> /\ results = <<>> /\ alerts = <<>>
    /\ sent = <<>> /\ logs = <<>>

NextMain ==
    \/ \E env_ok, has_token \in BOOLEAN, status \in StatusInputs :
         Auth(env_ok, status, has_token)
    \/ \E status \in StatusInputs, output \in Payloads : Get(status, output)
    \/ GetRaises
    \/ \E data \in DataInputs, photo_ok \in BOOLEAN : AnalyzeRow(data, photo_ok)
    \/ \E msg_ok \in BOOLEAN : Summary(msg_ok)

Spec == InitMain /\ [][NextMain]_vars

---------------------------------------------------------------------------
(* Properties of a run of main (Spec).                                     *)

Computed(stage) == stage \in Signals \cup {None}

\* C3: within the analysis of one symbol a failure of the weekly computation
\* leaves the daily result produced and returned, with the weekly result
\* alone recorded as absent.
C3_TimeframesIndependent ==
    \A i \in 1..Len(results) :
      (Computed(results[i].daily) /\ results[i].weekly = "raise")
        => /\ results[i].outcome = "signals"
           /\ results[i].sd = results[i].daily
           /\ results[i].sw = None

Failed(i) == results[i].outcome = "raise"

RECURSIVE FailedCodes(_)
\* the codes of the first n symbols whose analysis raised, in order
FailedCodes(n) ==
    IF n = 0 THEN <<>>
    ELSE FailedCodes(n - 1)
         \o (IF Failed(n) THEN <<top10[n].code>> ELSE <<>>)

RECURSIVE SignalCodes(_)
\* the codes of the first n symbols that returned at least one signal
SignalCodes(n) ==
    IF n = 0 THEN <<>>
    ELSE SignalCodes(n - 1)
         \o (IF results[n].outcome = "signals"
                /\ (results[n].sd \in Signals \/ results[n].sw \in Signals)
             THEN <<top10[n].code>> ELSE <<>>)

ExceptionLogs == SelectSeq(logs, LAMBDA e : e.level = "exception")

\* C4: main calls analyze_symbol for every row of the ranked list, in order;
\* a symbol whose analysis raises is logged once, for that symbol, and
\* neither stops the loop nor ends the process; the symbols after it are
\* analysed and their signals reach the alert summary.
C4_EverySymbolAttempted ==
    /\ idx <= Len(top10) /\ Len(results) = idx
    /\ attempted = [i \in 1..idx |-> top10[i].code]
    /\ (pc \in {"done", "crashed"} /\ top10 # <<>>) => idx = Len(top10)
    /\ [i \in 1..Len(ExceptionLogs) |-> ExceptionLogs[i].what] = FailedCodes(idx)
    /\ [i \in 1..Len(alerts) |-> alerts[i].code] = SignalCodes(idx)
    /\ (pc = "done" /\ top10 # <<>>) =>
         /\ sent # <<>>
         /\ sent[Len(sent)] = [kind |-> "summary", alerts |-> alerts]

\* the first symbol fails, the second is analysed and is in the summary
C4_Witness ==
    /\ pc = "done" /\ Len(top10) = 2 /\ idx = 2
    /\ Failed(1)
    /\ results[2].outcome = "signals"
    /\ Len(alerts) = 1 /\ alerts[1].code = top10[2].code
    /\ sent[Len(sent)].kind = "summary" /\ sent[Len(sent)].alerts = alerts

FetchReturned == pc \in {"loop", "done"}

AllFailed ==
    /\ Len(gets) = FETCH_ATTEMPTS
    /\ \A i \in 1..Len(gets) : gets[i] # 200

EmptyOutput == gets # <<>> /\ gets[Len(gets)] = 200 /\ payload = <<>>

NoRequestAfterSuccess == \A i \in 1..(Len(gets) - 1) : gets[i] # 200

\* C10 as stated: at most 3 GET requests, none after the first 200; the
\* empty table is returned exactly when all 3 responses are non-200, and
\* then main ends without analysing a symbol or sending a message.
C10_Original ==
    /\ Len(gets) <= 3
    /\ NoRequestAfterSuccess
    /\ FetchReturned => (top10 = <<>> <=> AllFailed)
    /\ AllFailed => (pc = "done" /\ attempted = <<>> /\ sent = <<>>)

\* C10 (amended): at most 3 GET requests, none after the first 200; the
\* empty table is returned when all 3 responses are non-200 and also when
\* the 200 response carries no output list, and in no other case; in both
\* cases main ends without analysing a symbol or sending a message.
C10_FetchRetry ==
    /\ Len(gets) <= 3
    /\ NoRequestAfterSuccess
    /\ FetchReturned => (top10 = <<>> <=> (AllFailed \/ EmptyOutput))
    /\ (AllFailed \/ (FetchReturned /\ EmptyOutput))
         => (pc = "done" /\ top10 = <<>> /\ attempted = <<>> /\ sent = <<>>)

\* three non-200 responses, and main has ended
C10_Witness ==
    /\ AllFailed /\ Len(gets) = 3
    /\ pc = "done" /\ top10 = <<>> /\ attempted = <<>> /\ sent = <<>>

---------------------------------------------------------------------------
(* Properties of the indicator run (SpecInd).                              *)

Rows == 1..Len(ind)

InRange(v) == 0 <= v /\ v <= 100 * SCALE

\* C5: every row of the indicator output has 0 <= CompK <= 100 and
\* 0 <= CompD <= 100, the first rows (rolling windows not yet full) included.
C5_CompositeRange ==
    \A i \in Rows : InRange(ind[i].CompK) /\ InRange(ind[i].CompD)

\* a row inside the first window whose unclipped composite exceeds 100
C5_Witness ==
    \E i \in Rows :
      /\ i < K_WINDOW
      /\ ind[i].k_raw > 200 * SCALE
      /\ ind[i].CompK = 100 * SCALE

FlatRange(i) == ind[i].hh = ind[i].ll
FlatMacd(i)  == ind[i].macd_max = ind[i].macd_min
ConstantClose(i) == \A j \in 1..i : bars[j].Close = bars[1].Close

\* C6 as stated: at every row whose rolling high/low range is zero, raw %K
\* is exactly 50 and normalized MACD is exactly 50.
C6_Original ==
    \A i \in Rows :
      FlatRange(i) => (ind[i].k_raw = 50 * SCALE /\ ind[i].macd_n0 = 50 * SCALE)

\* C6 (amended): at every row whose rolling high/low range is zero raw %K is
\* exactly 50; normalized MACD (before smoothing) is exactly 50 at every row
\* whose rolling MACD range is zero, which holds in particular while the
\* close has not changed since the start of the series.
C6_FlatRange ==
    \A i \in Rows :
      /\ FlatRange(i) => ind[i].k_raw = 50 * SCALE
      /\ FlatMacd(i) => ind[i].macd_n0 = 50 * SCALE
      /\ ConstantClose(i) => (FlatMacd(i) /\ ind[i].macd_n0 = 50 * SCALE)

\* a zero high/low range with raw %K = 50 while normalized MACD is not 50
C6_Witness ==
    \E i \in Rows :
      /\ FlatRange(i) /\ ind[i].k_raw = 50 * SCALE
      /\ ~FlatMacd(i) /\ ind[i].macd_n0 # 50 * SCALE

Neutral(i) == ind[i].CompK = 50 * SCALE /\ ind[i].CompD = 50 * SCALE

---------------------------------------------------------------------------
(* Properties of the detector run (SpecDetect).                            *)

DiffPrev(t) == dfInd[t - 1].Diff
DiffCurr(t) == dfInd[t].Diff
KPrev(t)    == dfInd[t - 1].CompK

EventIdx == { t \in 1..Len(dfInd) : t >= 2 }

\* C1: at every index t of a series with at least two rows the detector
\* returns a BUY-family event exactly when diffPrev <= 0 and diffCurr > 0;
\* the event is BUY when CompositeK(t-1) < osLine and BUY_W otherwise; and
\* on scenario B the only event is at index 4 (diff 0 -> 0.3) and it is BUY.
C1_BuyRule ==
    /\ Len(events) = Len(dfInd)
    /\ \A t \in EventIdx :
         /\ (events[t] \in BuyFamily) <=> (DiffPrev(t) <= 0 /\ DiffCurr(t) > 0)
         /\ events[t] \in BuyFamily =>
              (events[t] = "BUY" <=> KPrev(t) < OS_LINE * SCALE)
    /\ dfInd = ScenarioB => events = <<None, None, None, "BUY", None>>

C1_Witness == dfInd = ScenarioB /\ events[4] = "BUY"

\* C2: at every index t the detector returns a SELL-family event exactly
\* when diffPrev >= 0 and diffCurr < 0; the event is SELL when
\* CompositeK(t-1) > obLine and SELL_W otherwise (so a previous K equal to
\* obLine gives SELL_W), whatever the current row's CompositeK is.
C2_SellRule ==
    \A t \in EventIdx :
      /\ (events[t] \in SellFamily) <=> (DiffPrev(t) >= 0 /\ DiffCurr(t) < 0)
      /\ events[t] \in SellFamily =>
           (events[t] = "SELL" <=> KPrev(t) > OB_LINE * SCALE)
      /\ (events[t] \in SellFamily /\ KPrev(t) = OB_LINE * SCALE)
           => events[t] = "SELL_W"

C2_Witness ==
    \E t, u \in EventIdx :
      /\ events[t] = "SELL_W" /\ KPrev(t) = OB_LINE * SCALE
      /\ events[u] = "SELL" /\ dfInd[u].CompK <= OB_LINE * SCALE

\* C7: a move from diffPrev = 0 to diffCurr > 0 gives a BUY-family event, a
\* move from diffPrev = 0 to diffCurr < 0 gives a SELL-family event, two
\* consecutive zero diffs give no event, and the golden-cross and the
\* dead-cross condition never hold together.
C7_TieBreak ==
    \A t \in EventIdx :
      /\ (DiffPrev(t) = 0 /\ DiffCurr(t) > 0) => events[t] \in BuyFamily
      /\ (DiffPrev(t) = 0 /\ DiffCurr(t) < 0) => events[t] \in SellFamily
      /\ (DiffPrev(t) = 0 /\ DiffCurr(t) = 0) => events[t] = None
      /\ ~(golden_cross(DiffPrev(t), DiffCurr(t))
           /\ dead_cross(DiffPrev(t), DiffCurr(t)))

C7_Witness ==
    \E t, u, v \in EventIdx :
      /\ DiffPrev(t) = 0 /\ DiffCurr(t) > 0 /\ events[t] \in BuyFamily
      /\ DiffPrev(u) = 0 /\ DiffCurr(u) < 0 /\ events[u] \in SellFamily
      /\ DiffPrev(v) = 0 /\ DiffCurr(v) = 0 /\ events[v] = None

\* The last non-zero diff strictly before index t, or 0 when there is none.
RECURSIVE LastNonZero(_)
LastNonZero(t) ==
    IF t <= 1 THEN 0
    ELSE IF dfInd[t - 1].Diff # 0 THEN dfInd[t - 1].Diff
    ELSE LastNonZero(t - 1)

BuyCount == Cardinality({ t \in 1..Len(events) : events[t] \in BuyFamily })

\* An upward sign change: diff becomes positive and its last non-zero value
\* before that was negative (possibly with zeros in between).
UpwardSignChanges ==
    Cardinality({ t \in 1..Len(dfInd) :
                    dfInd[t].Diff > 0 /\ LastNonZero(t) < 0 })

\* diff rises from exactly 0 to a positive value without having been
\* negative since it was last positive (or since the start of the series).
ZeroRebounds ==
    Cardinality({ t \in EventIdx :
                    /\ dfInd[t].Diff > 0 /\ dfInd[t - 1].Diff = 0
                    /\ LastNonZero(t) >= 0 })

NeverZero == \A t \in 1..Len(dfInd) : dfInd[t].Diff # 0

\* C8 as stated: for every diff sequence, zeros included, the number of
\* BUY-family events equals the number of upward sign changes of diff.
C8_Original == BuyCount = UpwardSignChanges

\* C8 (amended): the number of BUY-family events equals the number of upward
\* sign changes of diff plus the number of rises from exactly 0 that are not
\* sign changes; on a series whose diff is never 0 the two counts are equal.
C8_BuyCount ==
    /\ BuyCount = UpwardSignChanges + ZeroRebounds
    /\ NeverZero => BuyCount = UpwardSignChanges

C8_Witness ==
    /\ UpwardSignChanges >= 1 /\ ZeroRebounds >= 1
    /\ BuyCount = UpwardSignChanges + ZeroRebounds

=============================================================================
